---- MODULE Spec2Model ----
(***************************************************************************)
(* Model of analyze_issue (POST /api/analyze) of backend_api_gemini.py.    *)
(* Text is a sequence of one-character strings; Python values are tagged   *)
(* records [t |-> type, v |-> value].                                      *)
(***************************************************************************)
EXTENDS Integers, Sequences, FiniteSets, TLC

\* ---------------------------------------------------------------- bounds
MaxRawLen == 4        \* small model replies: every text up to this length
MaxPad == 501         \* longest run of filler in a long model reply
MaxDescLen == 201     \* longest citizen description
MaxCommas == 2        \* most commas in an image string
MaxClock == 3         \* clock ticks observed
TicksPerSecond == 2   \* clock resolution: ticks in one second

\* ------------------------------------------------------ program constants
RawLimit == 500                 \* ai_response[:500]
LocLimit == 200                 \* description[:200]
DefaultPriority == 50           \* analysis.get("priority_score", 50)

\* ------------------------------------------------------------ Python values
PyNone == [t |-> "none"]
PyStr(cs) == [t |-> "str", v |-> cs]
PyInt(n) == [t |-> "int", v |-> n]
PyList(xs) == [t |-> "list", v |-> xs]
PyDict(f) == [t |-> "dict", v |-> f]
EmptyMap == [k \in {} |-> PyNone]

\* bool(x) as used by `not x` / `if x`
Truthy(x) ==
  CASE x.t = "none" -> FALSE
    [] x.t = "str" -> Len(x.v) > 0
    [] x.t = "list" -> Len(x.v) > 0
    [] x.t = "dict" -> DOMAIN x.v # {}
    [] x.t = "int" -> x.v # 0

Min(a, b) == IF a < b THEN a ELSE b

\* s.find(c): 0-based index of the first c, -1 when there is none
str_find(s, c) ==
  LET hits == {i \in 1..Len(s) : s[i] = c}
  IN IF hits = {} THEN -1 ELSE (CHOOSE i \in hits : \A j \in hits : i <= j) - 1

\* s.rfind(c): 0-based index of the last c, -1 when there is none
str_rfind(s, c) ==
  LET hits == {i \in 1..Len(s) : s[i] = c}
  IN IF hits = {} THEN -1 ELSE (CHOOSE i \in hits : \A j \in hits : i >= j) - 1

\* s[a:b] for 0 <= a, 0 <= b
Slice(s, a, b) == SubSeq(s, a + 1, Min(b, Len(s)))

\* c in s
Contains(s, c) == \E i \in 1..Len(s) : s[i] = c

\* s.split(c): the segments between occurrences of c
RECURSIVE str_split(_, _)
str_split(s, c) ==
  LET i == str_find(s, c)
  IN IF i = -1 THEN <<s>>
     ELSE <<Slice(s, 0, i)>> \o str_split(SubSeq(s, i + 2, Len(s)), c)

\* ------------------------------------------------------------- json.loads
Digits == {"0", "1", "2", "3", "4", "5", "6", "7", "8", "9"}
DigitVal(c) ==
  CASE c = "0" -> 0 [] c = "1" -> 1 [] c = "2" -> 2 [] c = "3" -> 3 [] c = "4" -> 4
    [] c = "5" -> 5 [] c = "6" -> 6 [] c = "7" -> 7 [] c = "8" -> 8 [] c = "9" -> 9

ParseFail == [ok |-> FALSE]
ParseOk(val, next) == [ok |-> TRUE, val |-> val, next |-> next]

\* position of the first non-blank character at or after i (Len(s)+1 if none)
SkipWs(s, i) ==
  CHOOSE j \in i..(Len(s) + 1) :
    /\ (j <= Len(s) => s[j] # " ")
    /\ \A k \in i..(j - 1) : s[k] = " "

\* a string literal (no escapes) opening at position i
ParseString(s, i) ==
  LET closes == {j \in (i + 1)..Len(s) : s[j] = "\""}
  IN IF i > Len(s) \/ s[i] # "\"" \/ closes = {} THEN ParseFail
     ELSE LET j == CHOOSE j \in closes : \A k \in closes : j <= k
          IN ParseOk(PyStr(SubSeq(s, i + 1, j - 1)), j + 1)

RECURSIVE DigitsValue(_)
DigitsValue(ds) ==
  IF ds = <<>> THEN 0
  ELSE 10 * DigitsValue(SubSeq(ds, 1, Len(ds) - 1)) + DigitVal(ds[Len(ds)])

\* an unsigned integer literal starting at position i (no leading zeros)
ParseNumber(s, i) ==
  LET end == CHOOSE j \in i..(Len(s) + 1) :
               /\ (j <= Len(s) => s[j] \notin Digits)
               /\ \A k \in i..(j - 1) : s[k] \in Digits
      stop == IF s[i] = "0" THEN i + 1 ELSE end
  IN ParseOk(PyInt(DigitsValue(SubSeq(s, i, stop - 1))), stop)

ParseNull(s, i) ==
  IF i + 3 <= Len(s) /\ SubSeq(s, i, i + 3) = <<"n", "u", "l", "l">>
  THEN ParseOk(PyNone, i + 4) ELSE ParseFail

RECURSIVE ParseValue(_, _), ParseMembers(_, _, _), ParseElements(_, _, _)

\* one JSON value starting at position i
ParseValue(s, i) ==
  IF i > Len(s) THEN ParseFail
  ELSE CASE s[i] = "{" ->
              LET j == SkipWs(s, i + 1)
              IN IF j <= Len(s) /\ s[j] = "}" THEN ParseOk(PyDict(EmptyMap), j + 1)
                 ELSE ParseMembers(s, j, EmptyMap)
         [] s[i] = "[" ->
              LET j == SkipWs(s, i + 1)
              IN IF j <= Len(s) /\ s[j] = "]" THEN ParseOk(PyList(<<>>), j + 1)
                 ELSE ParseElements(s, j, <<>>)
         [] s[i] = "\"" -> ParseString(s, i)
         [] s[i] \in Digits -> ParseNumber(s, i)
         [] s[i] = "n" -> ParseNull(s, i)
         [] OTHER -> ParseFail

\* "key" : value pairs up to the closing brace; a repeated key keeps the last value
ParseMembers(s, i, acc) ==
  LET key == ParseString(s, i)
  IN IF ~key.ok THEN ParseFail
     ELSE LET c == SkipWs(s, key.next)
          IN IF c > Len(s) \/ s[c] # ":" THEN ParseFail
             ELSE LET val == ParseValue(s, SkipWs(s, c + 1))
                  IN IF ~val.ok THEN ParseFail
                     ELSE LET e == SkipWs(s, val.next)
                              acc2 == [k \in (DOMAIN acc) \cup {key.val.v} |->
                                         IF k = key.val.v THEN val.val ELSE acc[k]]
                          IN IF e > Len(s) THEN ParseFail
                             ELSE IF s[e] = "}" THEN ParseOk(PyDict(acc2), e + 1)
                             ELSE IF s[e] = "," THEN ParseMembers(s, SkipWs(s, e + 1), acc2)
                             ELSE ParseFail

\* values up to the closing bracket
ParseElements(s, i, acc) ==
  LET val == ParseValue(s, i)
  IN IF ~val.ok THEN ParseFail
     ELSE LET e == SkipWs(s, val.next)
              acc2 == Append(acc, val.val)
          IN IF e > Len(s) THEN ParseFail
             ELSE IF s[e] = "]" THEN ParseOk(PyList(acc2), e + 1)
             ELSE IF s[e] = "," THEN ParseElements(s, SkipWs(s, e + 1), acc2)
             ELSE ParseFail

\* json.loads(s): ok = FALSE stands for json.JSONDecodeError
json_loads(s) ==
  LET r == ParseValue(s, SkipWs(s, 1))
  IN IF r.ok /\ SkipWs(s, r.next) > Len(s) THEN [ok |-> TRUE, val |-> r.val]
     ELSE ParseFail

\* ----------------------------------------------------- keys and defaults
K_issue_classification == <<"i","s","s","u","e","_","c","l","a","s","s","i","f","i","c","a","t","i","o","n">>
K_ai_analysis == <<"a","i","_","a","n","a","l","y","s","i","s">>
K_recommended_actions == <<"r","e","c","o","m","m","e","n","d","e","d","_","a","c","t","i","o","n","s">>
K_safety_warnings == <<"s","a","f","e","t","y","_","w","a","r","n","i","n","g","s">>
K_priority_score == <<"p","r","i","o","r","i","t","y","_","s","c","o","r","e">>
K_assigned_department == <<"a","s","s","i","g","n","e","d","_","d","e","p","a","r","t","m","e","n","t">>
K_reasoning == <<"r","e","a","s","o","n","i","n","g">>
MunicipalServices == <<"M","u","n","i","c","i","p","a","l"," ","S","e","r","v","i","c","e","s">>

\* d.get(key, default)
dict_get(d, key, default) == IF key \in DOMAIN d THEN d[key] ELSE default

\* ------------------------------------------------------------- the clock
\* datetime.now().strftime('%Y%m%d%H%M%S'): the instant cut to whole seconds
strftime(now) == now \div TicksPerSecond

\* datetime.now().isoformat(): the instant at full resolution
isoformat(now) == [second |-> now \div TicksPerSecond, fraction |-> now % TicksPerSecond]

\* --------------------------------------------------------- base64, images
B64Index(c) == CASE c = "A" -> 0 [] c = "d" -> 29
B64Alphabet == {"A", "d"}

RECURSIVE B64Bytes(_)
B64Bytes(cs) ==
  IF Len(cs) < 4 THEN <<>>
  ELSE LET a == B64Index(cs[1])
           b == B64Index(cs[2])
           c == B64Index(cs[3])
           d == B64Index(cs[4])
       IN <<a * 4 + b \div 16, (b % 16) * 16 + c \div 4, (c % 4) * 64 + d>>
            \o B64Bytes(SubSeq(cs, 5, Len(cs)))

\* base64.b64decode(s): characters outside the alphabet are discarded; a
\* number of data characters that is no multiple of 4 raises binascii.Error
\* (the image strings of the model carry no '=' padding)
b64decode(s) ==
  LET cs == SelectSeq(s, LAMBDA c : c \in B64Alphabet)
  IN IF Len(cs) % 4 # 0 THEN [ok |-> FALSE]
     ELSE [ok |-> TRUE, val |-> B64Bytes(cs)]

\* the text the handler passes to base64.b64decode for a supplied image
DecoderInput(img) ==
  IF Contains(img, ",") THEN str_split(img, ",")[2] ELSE img

\* --------------------------------------------------------------- inputs
DescAlphabet == <<"a", "b", "c">>
Desc(n) == [i \in 1..n |-> DescAlphabet[(i % 3) + 1]]
DescLens == {0, 1} \cup (LocLimit..MaxDescLen)
Descriptions == {Desc(n) : n \in DescLens}

Segments == {<<>>, <<"d">>, <<"A", "A", "A", "A">>}
RECURSIVE ImagesWith(_)
ImagesWith(n) ==
  IF n = 0 THEN Segments
  ELSE {a \o <<",">> \o b : a \in Segments, b \in ImagesWith(n - 1)}
ImageStrings == UNION {ImagesWith(n) : n \in 0..MaxCommas}

\* request bodies: JSON objects with optional string fields description, image
Requests ==
  {[k \in ({"description" : x \in d} \cup {"image" : x \in i}) |->
      IF k = "description" THEN PyStr(CHOOSE x \in d : TRUE)
      ELSE PyStr(CHOOSE x \in i : TRUE)] :
     d \in {{}} \cup {{x} : x \in Descriptions},
     i \in {{}} \cup {{x} : x \in ImageStrings}}

\* model replies
RawAlphabet == {"{", "}", "7", "x"}
RECURSIVE TextsOfLen(_)
TextsOfLen(n) ==
  IF n = 0 THEN {<<>>}
  ELSE {Append(t, c) : t \in TextsOfLen(n - 1), c \in RawAlphabet}
SmallTexts == UNION {TextsOfLen(n) : n \in 0..MaxRawLen}

KeyOrder == <<K_issue_classification, K_ai_analysis, K_recommended_actions,
              K_safety_warnings, K_priority_score, K_assigned_department, K_reasoning>>
PayloadKeys == {KeyOrder[i] : i \in 1..Len(KeyOrder)}
SampleValue ==
  <<  <<"{","\"","s","e","v","e","r","i","t","y","\"",":","\"","h","i","g","h","\"","}">>,
      <<"{","\"","r","i","s","k","_","l","e","v","e","l","\"",":","\"","l","o","w","\"","}">>,
      <<"[","\"","r","e","p","a","i","r","\"","]">>,
      <<"[","\"","h","a","z","a","r","d","\"","]">>,
      <<"7","7">>,
      <<"\"","W","A","S","A","\"">>,
      <<"\"","p","o","t","h","o","l","e","\"">>  >>

\* the members "key":value of the keys of S from position i of KeyOrder on
RECURSIVE MembersText(_, _, _)
MembersText(S, i, first) ==
  IF i > Len(KeyOrder) THEN <<>>
  ELSE IF KeyOrder[i] \notin S THEN MembersText(S, i + 1, first)
  ELSE (IF first THEN <<>> ELSE <<",">>) \o <<"\"">> \o KeyOrder[i] \o <<"\"", ":">>
         \o SampleValue[i] \o MembersText(S, i + 1, FALSE)
PayloadText(S) == <<"{">> \o MembersText(S, 1, TRUE) \o <<"}">>
PayloadTexts == {PayloadText(S) : S \in SUBSET PayloadKeys}

ProseTexts ==
  { <<"S","u","r","e","!"," ","{","\"","p","r","i","o","r","i","t","y","_","s","c","o","r","e","\"",":"," ","7","7","}"," ","T","h","a","n","k","s",".">>,
    <<"n","u","l","l">>,
    <<"[","]">>,
    <<"[","7","]">>,
    <<"\"","x","\"">>,
    <<" ","7"," ">> }

Pad(n) == [i \in 1..n |-> "x"]
PadLens == (RawLimit - 1)..MaxPad
LongTexts ==
  UNION {{Pad(n), Pad(n) \o <<"{", "x", "}">>, <<"{">> \o Pad(n) \o <<"}">>,
          <<"x", "{", "}">> \o Pad(n)} : n \in PadLens}

RawTexts == SmallTexts \cup PayloadTexts \cup ProseTexts \cup LongTexts

\* ---------------------------------------------------------------- state
VARIABLES
  pc,             \* position of the handler
  clock,          \* the instant datetime.now() returns
  description,    \* local: data.get('description', '')
  image_data,     \* local: data.get('image'), later the text given to b64decode
  gemini_parts,   \* local: the prompt parts
  response_text,  \* response.text as the model returned it
  ai_response,    \* local: response.text, later the candidate JSON text
  analysis,       \* local: json.loads(ai_response)
  report,         \* the report literal as far as it is evaluated
  returned,       \* the (body, status) the handler returned
  calls           \* model.generate_content calls made by this handling

vars == <<pc, clock, description, image_data, gemini_parts, response_text,
          ai_response, analysis, report, returned, calls>>

Unbound == [t |-> "unbound"]
NoReturn == [status |-> 0, body |-> EmptyMap]

\* ------------------------------------------------------------- responses
\* jsonify({'error': 'Please provide description or image'}), 400
BadRequest ==
  [status |-> 400, body |-> [error |-> <<"Please provide description or image">>]]

\* ParseError attaching the whole text
ParseErrorUncut(text) ==
  [status |-> 500,
   body |-> [error |-> <<"Failed to parse AI response: ", "JSONDecodeError">>,
             raw_response |-> text]]

\* except json.JSONDecodeError: the text in ai_response, cut to RawLimit
ParseError(text) ==
  [status |-> 500,
   body |-> [error |-> <<"Failed to parse AI response: ", "JSONDecodeError">>,
             raw_response |-> Slice(text, 0, RawLimit)]]

\* except Exception
ServerError(e) == [status |-> 500, body |-> [error |-> <<"Error: ", e>>]]

\* ------------------------------------------------------------ the handler
\* IsRejected with `or` in place of `and`
IsRejectedOr(d, img) == ~Truthy(d) \/ ~Truthy(img)

\* `if not description and not image_data`
IsRejected(d, img) == ~Truthy(d) /\ ~Truthy(img)

\* prompt_text: the template, then the marker and the description when given
PromptText(d) ==
  [kind |-> "text",
   text |-> IF Truthy(d)
            THEN <<"ANALYSIS_PROMPT", "\n\nCitizen's description: ">> \o d.v
            ELSE <<"ANALYSIS_PROMPT">>]

\* ExtractCandidate without the + 1 after rfind
ExtractCandidateShort(raw) ==
  LET json_start == str_find(raw, "{")
      json_end == str_rfind(raw, "}")
  IN IF json_start # -1 /\ json_end > json_start
     THEN Slice(raw, json_start, json_end)
     ELSE raw

\* the candidate JSON text taken from the raw reply
ExtractCandidate(raw) ==
  LET json_start == str_find(raw, "{")
      json_end == str_rfind(raw, "}") + 1
  IN IF json_start # -1 /\ json_end > json_start
     THEN Slice(raw, json_start, json_end)
     ELSE raw

\* LocationDescription without the cut
LocationDescriptionWhole(d) == PyStr(d.v)

\* location.description
LocationDescription(d) == PyStr(Slice(d.v, 0, LocLimit))

\* ReportFields reading the reasoning under the report's own key name
ReportFieldsAiReasoning(a, d) ==
  [issue_classification |-> dict_get(a, K_issue_classification, PyDict(EmptyMap)),
   location |-> [description |-> PyStr(Slice(d.v, 0, LocLimit)), coordinates |-> PyNone],
   ai_analysis |-> dict_get(a, K_ai_analysis, PyDict(EmptyMap)),
   recommended_actions |-> dict_get(a, K_recommended_actions, PyList(<<>>)),
   safety_warnings |-> dict_get(a, K_safety_warnings, PyList(<<>>)),
   priority_score |-> dict_get(a, K_priority_score, PyInt(DefaultPriority)),
   assigned_department |-> dict_get(a, K_assigned_department, PyStr(MunicipalServices)),
   citizen_description |-> d,
   ai_reasoning |-> dict_get(a, <<"a", "i", "_">> \o K_reasoning, PyStr(<<>>)),
   status |-> "submitted"]

\* the entries of the report literal between timestamp and created_at
ReportFields(a, d) ==
  [issue_classification |-> dict_get(a, K_issue_classification, PyDict(EmptyMap)),
   location |-> [description |-> LocationDescription(d), coordinates |-> PyNone],
   ai_analysis |-> dict_get(a, K_ai_analysis, PyDict(EmptyMap)),
   recommended_actions |-> dict_get(a, K_recommended_actions, PyList(<<>>)),
   safety_warnings |-> dict_get(a, K_safety_warnings, PyList(<<>>)),
   priority_score |-> dict_get(a, K_priority_score, PyInt(DefaultPriority)),
   assigned_department |-> dict_get(a, K_assigned_department, PyStr(MunicipalServices)),
   citizen_description |-> d,
   ai_reasoning |-> dict_get(a, K_reasoning, PyStr(<<>>)),
   status |-> "submitted"]

Init ==
  /\ pc = "idle"
  /\ clock = 0
  /\ description = Unbound
  /\ image_data = Unbound
  /\ gemini_parts = <<>>
  /\ response_text = Unbound
  /\ ai_response = Unbound
  /\ analysis = Unbound
  /\ report = EmptyMap
  /\ returned = NoReturn
  /\ calls = 0

\* a request arrives: read the body, validate, start the prompt
AnalyzeStart ==
  /\ pc = "idle"
  /\ \E data \in Requests :
       LET d == dict_get(data, "description", PyStr(<<>>))
           img == dict_get(data, "image", PyNone)
       IN /\ description' = d
          /\ image_data' = img
          /\ IF IsRejected(d, img)
             THEN /\ returned' = BadRequest
                  /\ gemini_parts' = <<>>
                  /\ pc' = "done"
             ELSE /\ gemini_parts' = <<PromptText(d)>>
                  /\ pc' = "image"
                  /\ UNCHANGED returned
  /\ UNCHANGED <<clock, response_text, ai_response, analysis, report, calls>>

\* `if image_data:` strip the prefix, decode, open the image
DecodeImage ==
  /\ pc = "image"
  /\ IF ~Truthy(image_data)
     THEN /\ pc' = "invoke"
          /\ UNCHANGED <<image_data, gemini_parts, returned>>
     ELSE LET input == DecoderInput(image_data.v)
              image_bytes == b64decode(input)
          IN /\ image_data' = PyStr(input)
             /\ IF ~image_bytes.ok
                THEN /\ returned' = ServerError("binascii.Error")
                     /\ pc' = "done"
                     /\ UNCHANGED gemini_parts
                ELSE \/ /\ returned' = ServerError("UnidentifiedImageError")
                        /\ pc' = "done"
                        /\ UNCHANGED gemini_parts
                     \/ /\ Len(image_bytes.val) > 0
                        /\ gemini_parts' =
                             Append(gemini_parts, [kind |-> "image", bytes |-> image_bytes.val])
                        /\ pc' = "invoke"
                        /\ UNCHANGED returned
  /\ UNCHANGED <<clock, description, response_text, ai_response, analysis, report, calls>>

\* model.generate_content(...): one blocking call that fails or returns text
Invoke ==
  /\ pc = "invoke"
  /\ calls' = calls + 1
  /\ \/ /\ returned' = ServerError("generate_content")
        /\ pc' = "done"
        /\ UNCHANGED response_text
     \/ /\ \E raw \in RawTexts : response_text' = PyStr(raw)
        /\ pc' = "extract"
        /\ UNCHANGED returned
  /\ UNCHANGED <<clock, description, image_data, gemini_parts, ai_response, analysis, report>>

\* Extract calling the model again when the candidate does not parse
ExtractRetry ==
  /\ pc = "extract"
  /\ LET candidate == ExtractCandidate(response_text.v)
         parsed == json_loads(candidate)
     IN /\ ai_response' = PyStr(candidate)
        /\ IF parsed.ok
           THEN /\ analysis' = parsed.val
                /\ pc' = "report_id"
           ELSE /\ pc' = "invoke"
                /\ UNCHANGED analysis
  /\ UNCHANGED <<clock, description, image_data, gemini_parts, response_text, report,
                 returned, calls>>

\* take the candidate text out of the reply and parse it
Extract ==
  /\ pc = "extract"
  /\ LET candidate == ExtractCandidate(response_text.v)
         parsed == json_loads(candidate)
     IN /\ ai_response' = PyStr(candidate)
        /\ IF parsed.ok
           THEN /\ analysis' = parsed.val
                /\ pc' = "report_id"
                /\ UNCHANGED returned
           ELSE /\ returned' = ParseError(candidate)
                /\ pc' = "done"
                /\ UNCHANGED analysis
  /\ UNCHANGED <<clock, description, image_data, gemini_parts, response_text, report, calls>>

\* "report_id": first reading of the clock
StampReportId ==
  /\ pc = "report_id"
  /\ report' = [report_id |-> [prefix |-> "CIV-", stamp |-> strftime(clock)]]
  /\ pc' = "timestamp"
  /\ UNCHANGED <<clock, description, image_data, gemini_parts, response_text,
                 ai_response, analysis, returned, calls>>

\* "timestamp": second reading of the clock, then the entries taken from
\* analysis; analysis.get raises AttributeError when analysis is no dict
FillReport ==
  /\ pc = "timestamp"
  /\ IF analysis.t # "dict"
     THEN /\ returned' = ServerError("AttributeError")
          /\ report' = EmptyMap
          /\ pc' = "done"
     ELSE /\ report' = report @@ [timestamp |-> isoformat(clock)]
                         @@ ReportFields(analysis.v, description)
          /\ pc' = "created_at"
          /\ UNCHANGED returned
  /\ UNCHANGED <<clock, description, image_data, gemini_parts, response_text,
                 ai_response, analysis, calls>>

\* "created_at": third reading of the clock; return jsonify(report)
FinishReport ==
  /\ pc = "created_at"
  /\ report' = report @@ [created_at |-> isoformat(clock), ai_model |-> "Gemini 2.0 Flash"]
  /\ returned' = [status |-> 200, body |-> report']
  /\ pc' = "done"
  /\ UNCHANGED <<clock, description, image_data, gemini_parts, response_text,
                 ai_response, analysis, calls>>

\* the handling is over: the next call of the handler starts with fresh locals
NextRequest ==
  /\ pc = "done"
  /\ pc' = "idle"
  /\ description' = Unbound
  /\ image_data' = Unbound
  /\ gemini_parts' = <<>>
  /\ response_text' = Unbound
  /\ ai_response' = Unbound
  /\ analysis' = Unbound
  /\ report' = EmptyMap
  /\ returned' = NoReturn
  /\ calls' = 0
  /\ UNCHANGED clock

\* time passes
Tick ==
  /\ clock < MaxClock
  /\ clock' = clock + 1
  /\ UNCHANGED <<pc, description, image_data, gemini_parts, response_text,
                 ai_response, analysis, report, returned, calls>>

Next ==
  \/ AnalyzeStart
  \/ DecodeImage
  \/ Invoke
  \/ Extract
  \/ StampReportId
  \/ FillReport
  \/ FinishReport
  \/ NextRequest
  \/ Tick

Spec == Init /\ [][Next]_vars

\* ---------------------------------------------------------------- claims
Returned200 == pc = "done" /\ returned.status = 200
HasRaw == pc = "done" /\ "raw_response" \in DOMAIN returned.body
IsEmptyInput(x) == x.t = "none" \/ Len(x.v) = 0
Least(S) == CHOOSE i \in S : \A j \in S : i <= j
Greatest(S) == CHOOSE i \in S : \A j \in S : i >= j
Prefix(s, n) == SubSeq(s, 1, IF Len(s) < n THEN Len(s) ELSE n)

\* C1: a request whose description and image are both absent or empty is
\* answered 400 with an error string and no report; a request with a
\* non-empty description or a non-empty image is never answered 400.
C1_EmptyRequestIs400 ==
  [][ /\ (pc = "idle" /\ pc' # "idle") =>
           IF IsEmptyInput(description') /\ IsEmptyInput(image_data')
           THEN /\ pc' = "done"
                /\ returned'.status = 400
                /\ DOMAIN returned'.body = {"error"}
                /\ Len(returned'.body.error) > 0
                /\ report' = EmptyMap
           ELSE pc' # "done" /\ returned'.status = 0
      /\ returned'.status = 400 =>
           IsEmptyInput(description') /\ IsEmptyInput(image_data') ]_vars

C1_Witness ==
  /\ pc = "done"
  /\ returned.status = 400
  /\ image_data.t = "str"
  /\ description.t = "str"

\* C2: the text that is parsed is the part of the raw reply from its first
\* "{" to its last "}" when both occur and the first "{" lies before the last
\* "}", and the raw reply unchanged otherwise.
C2_CandidateText ==
  ai_response.t = "str" =>
    LET raw == response_text.v
        opens == {i \in 1..Len(raw) : raw[i] = "{"}
        closes == {i \in 1..Len(raw) : raw[i] = "}"}
    IN IF opens # {} /\ closes # {} /\ Least(opens) < Greatest(closes)
       THEN ai_response.v = SubSeq(raw, Least(opens), Greatest(closes))
       ELSE ai_response.v = raw

C2_Witness ==
  /\ ai_response.t = "str"
  /\ Len(ai_response.v) < Len(response_text.v)
  /\ Len(ai_response.v) > 2

\* C3: a raw reply with no "{" before a "}" always ends in the
\* malformed-response outcome: status 500 with error and a raw_response of at
\* most 500 characters.
C3_NoBracePairIsMalformed ==
  (/\ pc = "done"
   /\ response_text.t = "str"
   /\ ~ \E i, j \in 1..Len(response_text.v) :
          i < j /\ response_text.v[i] = "{" /\ response_text.v[j] = "}")
  => /\ returned.status = 500
     /\ DOMAIN returned.body = {"error", "raw_response"}
     /\ Len(returned.body.raw_response) <= RawLimit

\* C4: the raw_response of a parse failure is the first 500 characters of the
\* raw reply as the model returned it.
C4_RawResponseIsRawPrefix ==
  HasRaw => returned.body.raw_response = Prefix(response_text.v, RawLimit)

\* C5: a report has exactly the documented fields; every field taken from the
\* payload is the payload's value when the key is present and its default
\* otherwise; status is "submitted".
C5_ReportComplete ==
  Returned200 =>
    LET b == returned.body
        a == analysis.v
        From(key, default) == IF key \in DOMAIN a THEN a[key] ELSE default
    IN /\ DOMAIN b = {"report_id", "timestamp", "issue_classification", "location",
                      "ai_analysis", "recommended_actions", "safety_warnings",
                      "priority_score", "assigned_department", "citizen_description",
                      "ai_reasoning", "status", "created_at", "ai_model"}
       /\ b.issue_classification = From(K_issue_classification, [t |-> "dict", v |-> <<>>])
       /\ b.ai_analysis = From(K_ai_analysis, [t |-> "dict", v |-> <<>>])
       /\ b.recommended_actions = From(K_recommended_actions, [t |-> "list", v |-> <<>>])
       /\ b.safety_warnings = From(K_safety_warnings, [t |-> "list", v |-> <<>>])
       /\ b.priority_score = From(K_priority_score, [t |-> "int", v |-> 50])
       /\ b.assigned_department =
            From(K_assigned_department, [t |-> "str", v |-> MunicipalServices])
       /\ b.ai_reasoning = From(K_reasoning, [t |-> "str", v |-> <<>>])
       /\ b.status = "submitted"

C5_Witness ==
  /\ Returned200
  /\ K_priority_score \in DOMAIN analysis.v
  /\ K_reasoning \in DOMAIN analysis.v
  /\ K_assigned_department \notin DOMAIN analysis.v
  /\ returned.body.priority_score.v = 77

\* C6: in a report citizen_description is the request's description and
\* location.description is its first min(200, length) characters.
C6_DescriptionEcho ==
  Returned200 =>
    /\ returned.body.citizen_description = description
    /\ returned.body.location.description.t = "str"
    /\ returned.body.location.description.v = Prefix(description.v, 200)
    /\ Len(returned.body.location.description.v) <= 200

C6_Witness ==
  /\ Returned200
  /\ Len(returned.body.citizen_description.v) > 200
  /\ Len(returned.body.location.description.v) = 200

\* C7: the text given to the base64 decoder is everything after the first
\* comma of the image string, and the whole string when it has no comma.
C7_DecodesAfterFirstComma ==
  [][ (pc = "image" /\ pc' # "image" /\ ~IsEmptyInput(image_data)) =>
        LET img == image_data.v
            commas == {i \in 1..Len(img) : img[i] = ","}
        IN image_data'.v =
             IF commas = {} THEN img ELSE SubSeq(img, Least(commas) + 1, Len(img)) ]_vars

\* C8: a handling ends in exactly one response, 200, 400 or 500; 400 and 500
\* carry an error string; raw_response appears only in the 500 of a candidate
\* that did not parse and is at most 500 characters long.
C8_OneResponse ==
  /\ returned.status \in {0, 200, 400, 500}
  /\ (pc = "done") <=> (returned.status # 0)
  /\ returned.status \in {400, 500} =>
       /\ "error" \in DOMAIN returned.body
       /\ Len(returned.body.error) > 0
  /\ returned.status = 200 => returned.body = report
  /\ "raw_response" \in DOMAIN returned.body =>
       /\ returned.status = 500
       /\ ai_response.t = "str"
       /\ ~json_loads(ai_response.v).ok
       /\ analysis.t = "unbound"
       /\ Len(returned.body.raw_response) <= 500
  /\ (returned.status = 500 /\ ai_response.t = "str" /\ analysis.t = "unbound") =>
       "raw_response" \in DOMAIN returned.body

C8_Witness ==
  /\ HasRaw
  /\ Len(ai_response.v) > 500
  /\ Len(returned.body.raw_response) = 500

\* C9: the model is called at most once in a handling, only for a request that
\* passed validation and whose image, if any, was decoded; extraction and
\* parsing happen only after the call; no failure leads to a second call.
C9_SingleInvocation ==
  /\ calls \in {0, 1}
  /\ calls = 1 =>
       /\ pc \in {"extract", "report_id", "timestamp", "created_at", "done"}
       /\ ~(IsEmptyInput(description) /\ IsEmptyInput(image_data))
       /\ ~IsEmptyInput(image_data) =>
            Len(gemini_parts) = 2 /\ gemini_parts[2].kind = "image"
  /\ pc \in {"extract", "report_id", "timestamp", "created_at"} =>
       calls = 1 /\ response_text.t = "str"
  /\ (ai_response.t = "str" \/ analysis.t # "unbound") => calls = 1
  /\ returned.status = 400 => calls = 0
  /\ (returned.status = 500
        /\ returned.body.error[2] \in {"binascii.Error", "UnidentifiedImageError"}) =>
       calls = 0

C9_Witness ==
  /\ HasRaw
  /\ calls = 1
  /\ Len(gemini_parts) = 2

\* C10: timestamp and created_at of a report are the same instant and
\* report_id is "CIV-" with that instant at second resolution.
C10_OneInstant ==
  Returned200 =>
    /\ returned.body.timestamp = returned.body.created_at
    /\ returned.body.report_id.prefix = "CIV-"
    /\ returned.body.report_id.stamp = returned.body.timestamp.second

====
